---- MODULE Spec2Model ----
(***************************************************************************)
(* dircmp: record a directory as a mapping relative path -> content hash,  *)
(* compare a directory with such a record, list a record (src/main.rs).    *)
(*                                                                         *)
(* The file system is a tree of nodes addressed by their path from the     *)
(* top of the modelled tree (a sequence of names); <<>> is the top, which  *)
(* always is a readable directory.  Record files live in a separate store  *)
(* addressed by [stem, ext].  One command runs at a time; the file system  *)
(* changes only between commands.                                          *)
(***************************************************************************)
EXTENDS Integers, Sequences, FiniteSets, TLC

\* ---- bounds ----
MaxName == 2        \* entry names are 1..MaxName
MaxDepth == 2       \* nodes have 1..MaxDepth path components
MaxByte == 1        \* a file's content is one of 0..MaxByte
MaxChanges == 1     \* file system changes made by the environment

Names == 1..MaxName
Bytes == 0..MaxByte

RECURSIVE PathsOfLen(_)
PathsOfLen(n) ==
    IF n = 0 THEN {<<>>}
    ELSE {Append(p, x) : p \in PathsOfLen(n - 1), x \in Names}

Nodes == UNION {PathsOfLen(n) : n \in 1..MaxDepth}
\* the paths a command line names as <directory>: the top of the tree and
\* the paths right below it (a directory, a file, or nothing at all)
DirArgs == PathsOfLen(0) \cup PathsOfLen(1)

Exts == {"bin", "txt"}
RecPaths == [stem : {"r"}, ext : Exts]

NoNode == [kind |-> "none", data |-> 0, ok |-> TRUE]
NoFile == [exists |-> FALSE, bytes |-> <<>>]
EmptyMap == [p \in {} |-> 0]

VARIABLES
    fs,         \* node -> [kind, data, ok]: the directory tree
    store,      \* record path -> [exists, bytes]: the record files
    changes,    \* number of environment changes so far
    pc,         \* "idle" (no command running), "walk", "rec", "done"
    op,         \* "none", "record", "compare", "list"
    directory,  \* argument <directory> of the running command
    record_path,\* argument <record_path> of the running command
    hashes,     \* the BTreeMap<PathBuf, String> of the command
    hits,       \* the HashSet<PathBuf> of compare
    stack,      \* call stack of record_hashes/compare_hashes: [dir, todo]
    out,        \* lines printed by the command so far
    result,     \* "none", "ok", "io_error", "panic"
    errPath,    \* the path whose access failed (<<>> when none)
    reads,      \* the files the command has called fs::read on
    last        \* what is remembered of the command run just before this one

vars == <<fs, store, changes, pc, op, directory, record_path, hashes, hits,
          stack, out, result, errPath, reads, last>>

\* ---- paths ----
IsPrefix(r, p) == Len(r) <= Len(p) /\ SubSeq(p, 1, Len(r)) = r

\* a strip_prefix that leaves the root in the path
strip_prefix_kept(p, r) == p

\* Path::strip_prefix(root_path)
strip_prefix(p, r) == SubSeq(p, Len(r) + 1, Len(p))

Parent(p) == SubSeq(p, 1, Len(p) - 1)

\* Ord of PathBuf: component-wise lexicographic
RECURSIVE PathLess(_, _)
PathLess(p, q) ==
    IF q = <<>> THEN FALSE
    ELSE IF p = <<>> THEN TRUE
    ELSE IF Head(p) # Head(q) THEN Head(p) < Head(q)
    ELSE PathLess(Tail(p), Tail(q))

MinPath(S) == CHOOSE p \in S : \A q \in S \ {p} : PathLess(p, q)

\* iteration order of a BTreeMap's keys
RECURSIVE SortedKeys(_)
SortedKeys(S) ==
    IF S = {} THEN <<>>
    ELSE <<MinPath(S)>> \o SortedKeys(S \ {MinPath(S)})

\* ---- file system primitives ----
\* Path::is_dir
is_dir(f, p) == p = <<>> \/ (p \in Nodes /\ f[p].kind = "dir")

\* fs::read_dir fails on an unreadable directory
ReadDirOk(f, p) == p = <<>> \/ f[p].ok

\* the entries fs::read_dir yields
Entries(f, d) ==
    {c \in Nodes : Len(c) = Len(d) + 1 /\ IsPrefix(d, c) /\ f[c].kind # "none"}

\* fs::read fails on an unreadable file
ReadOk(f, p) == f[p].ok

\* ---- hashing and encoding ----
HashBase == 100
\* hex_digest(SHA256, bytes): an injective map from contents to digests
hash_file(bytes) == HashBase + bytes

RECURSIVE EncodeEntries(_, _)
EncodeEntries(m, ks) ==
    IF ks = <<>> THEN <<>>
    ELSE <<Head(ks), <<m[Head(ks)]>>>> \o EncodeEntries(m, Tail(ks))

\* bincode::serialize of the map: entry count, then key and value of each
\* entry in key order
Encode(m) == <<<<Cardinality(DOMAIN m)>>>> \o EncodeEntries(m, SortedKeys(DOMAIN m))

RECURSIVE DecodeEntries(_, _, _)
\* the entries are inserted in file order: a later duplicate key wins
DecodeEntries(b, i, n) ==
    IF n = 0 THEN EmptyMap
    ELSE LET rest == DecodeEntries(b, i + 2, n - 1)
             k == b[i]
             v == b[i + 1][1]
         IN  [p \in (DOMAIN rest) \cup {k} |->
                 IF p \in DOMAIN rest THEN rest[p] ELSE v]

\* bincode::deserialize fails when the bytes end before the announced entries
DecodeOk(b) ==
    /\ Len(b) >= 1
    /\ Len(b) >= 1 + 2 * b[1][1]

Decode(b) == DecodeEntries(b, 2, b[1][1])

\* PathBuf::with_extension
with_extension(rp, e) == [rp EXCEPT !.ext = e]

\* read_record: fs::read, then deserialize(..).unwrap()
read_record(rp) ==
    IF ~store[rp].exists THEN [status |-> "io_error", hashes |-> EmptyMap]
    ELSE IF ~DecodeOk(store[rp].bytes) THEN [status |-> "panic", hashes |-> EmptyMap]
    ELSE [status |-> "ok", hashes |-> Decode(store[rp].bytes)]

\* ---- output lines ----
NoHash == 0 - 1
Line(tag, p) == [tag |-> tag, path |-> p, hash |-> NoHash]
ListLine(p, h) == [tag |-> "lst", path |-> p, hash |-> h]

RECURSIVE ListLines(_, _)
ListLines(m, ks) ==
    IF ks = <<>> THEN <<>>
    ELSE <<ListLine(Head(ks), m[Head(ks)])>> \o ListLines(m, Tail(ks))

NoLast == [op |-> "none", directory |-> <<>>, record_path |-> [stem |-> "r", ext |-> "bin"],
           result |-> "none", out |-> <<>>]

\* what is remembered of a command that ends: a successful record or compare
Ended ==
    IF op \in {"record", "compare"} /\ result = "ok"
    THEN [op |-> op, directory |-> directory, record_path |-> record_path,
          result |-> result, out |-> out]
    ELSE NoLast

\* a compare of d with rp keeps the memory of a command run on the same arguments
Before(d, rp) ==
    IF last.directory = d /\ last.record_path = rp THEN last ELSE NoLast

\* a tree with a directory <<1>> that holds the files <<1, 1>> and <<1, 2>>
\* of unequal content, next to a file <<2>>
NestedTree ==
    [n \in Nodes |->
        IF n = <<1>> THEN [kind |-> "dir", data |-> 0, ok |-> TRUE]
        ELSE IF n = <<1, 1>> \/ n = <<2>> THEN [kind |-> "file", data |-> 0, ok |-> TRUE]
        ELSE IF n = <<1, 2>> THEN [kind |-> "file", data |-> 1, ok |-> TRUE]
        ELSE NoNode]

\* the trees a run starts from: the empty one and the nested one
SeedTrees == {[n \in Nodes |-> NoNode], NestedTree}

Init ==
    /\ fs \in SeedTrees
    /\ store = [rp \in RecPaths |-> NoFile]
    /\ changes = 0
    /\ pc = "idle"
    /\ op = "none"
    /\ directory = <<>>
    /\ record_path = [stem |-> "r", ext |-> "bin"]
    /\ hashes = EmptyMap
    /\ hits = {}
    /\ stack = <<>>
    /\ out = <<>>
    /\ result = "none"
    /\ errPath = <<>>
    /\ reads = {}
    /\ last = NoLast

\* ---- the environment: changes between two commands ----
\* a change counts, and nothing is remembered across it
Forget ==
    /\ changes' = changes + 1
    /\ last' = NoLast
    /\ UNCHANGED <<pc, op, directory, record_path, hashes, hits, stack, out,
                   result, errPath, reads>>

CanChange == pc = "idle" /\ changes < MaxChanges

CreateFile(p, b) ==
    /\ CanChange
    /\ fs[p].kind = "none"
    /\ is_dir(fs, Parent(p))
    /\ fs' = [fs EXCEPT ![p] = [kind |-> "file", data |-> b, ok |-> TRUE]]
    /\ UNCHANGED store
    /\ Forget

MkDir(p) ==
    /\ CanChange
    /\ fs[p].kind = "none"
    /\ is_dir(fs, Parent(p))
    /\ fs' = [fs EXCEPT ![p] = [kind |-> "dir", data |-> 0, ok |-> TRUE]]
    /\ UNCHANGED store
    /\ Forget

WriteFile(p, b) ==
    /\ CanChange
    /\ fs[p].kind = "file"
    /\ fs[p].data # b
    /\ fs' = [fs EXCEPT ![p].data = b]
    /\ UNCHANGED store
    /\ Forget

Remove(p) ==
    /\ CanChange
    /\ fs[p].kind # "none"
    /\ Entries(fs, p) = {}
    /\ fs' = [fs EXCEPT ![p] = NoNode]
    /\ UNCHANGED store
    /\ Forget

Chmod(p) ==
    /\ CanChange
    /\ fs[p].kind # "none"
    /\ fs' = [fs EXCEPT ![p].ok = ~fs[p].ok]
    /\ UNCHANGED store
    /\ Forget

\* the record file loses its tail
Truncate(rp) ==
    /\ CanChange
    /\ store[rp].exists
    /\ store[rp].bytes # <<>>
    /\ store' = [store EXCEPT ![rp].bytes = SubSeq(@, 1, Len(@) - 1)]
    /\ UNCHANGED fs
    /\ Forget

\* ---- the commands ----
\* an entry that takes a root that is no directory for a failure
Enter_strict(stk, d) ==
    IF ~is_dir(fs, d) \/ ~ReadDirOk(fs, d) THEN [err |-> TRUE, stack |-> <<>>]
    ELSE [err |-> FALSE, stack |-> Append(stk, [dir |-> d, todo |-> Entries(fs, d)])]

\* entry of record_hashes/compare_hashes for dir: `if dir.is_dir()` and
\* fs::read_dir(dir)?
Enter(stk, d) ==
    IF ~is_dir(fs, d) THEN [err |-> FALSE, stack |-> stk]
    ELSE IF ~ReadDirOk(fs, d) THEN [err |-> TRUE, stack |-> <<>>]
    ELSE [err |-> FALSE, stack |-> Append(stk, [dir |-> d, todo |-> Entries(fs, d)])]

\* the current entry is consumed
Consume(stk, e) == [stk EXCEPT ![Len(stk)].todo = @ \ {e}]

Top == stack[Len(stack)]

\* a failure that is dropped: the command goes on to the [rec] lines
Abort_swallowed(p) ==
    /\ pc' = "rec"
    /\ result' = "io_error"
    /\ errPath' = p
    /\ stack' = <<>>

\* the `?` of a failed read_dir or read: the command returns the error
Abort(p) ==
    /\ pc' = "done"
    /\ result' = "io_error"
    /\ errPath' = p
    /\ stack' = <<>>

\* record: lines 45-46, up to the first read_dir
record(d, rp) ==
    /\ pc = "idle"
    /\ op' = "record"
    /\ directory' = d
    /\ record_path' = rp
    /\ hashes' = EmptyMap
    /\ hits' = {}
    /\ out' = <<>>
    /\ reads' = {}
    /\ last' = NoLast
    /\ LET en == Enter(<<>>, d) IN
        IF en.err THEN Abort(d)
        ELSE /\ pc' = "walk"
             /\ stack' = en.stack
             /\ result' = "none"
             /\ errPath' = <<>>
    /\ UNCHANGED <<fs, store, changes>>

\* record_hashes: one iteration of the loop over the entries, in whatever
\* order read_dir yields them
record_hashes(e) ==
    /\ pc = "walk" /\ op = "record"
    /\ stack # <<>>
    /\ e \in Top.todo
    /\ IF is_dir(fs, e)
       THEN LET en == Enter(Consume(stack, e), e) IN
            IF en.err THEN Abort(e) /\ UNCHANGED <<hashes, reads>>
            ELSE /\ stack' = en.stack
                 /\ UNCHANGED <<pc, result, errPath, hashes, reads>>
       ELSE /\ reads' = reads \cup {e}
            /\ IF ~ReadOk(fs, e) THEN Abort(e) /\ UNCHANGED hashes
               ELSE LET rel == strip_prefix(e, directory)
                        digest == hash_file(fs[e].data)
                    IN /\ hashes' = [p \in (DOMAIN hashes) \cup {rel} |->
                                        IF p = rel THEN digest ELSE hashes[p]]
                       /\ stack' = Consume(stack, e)
                       /\ UNCHANGED <<pc, result, errPath>>
    /\ UNCHANGED <<fs, store, changes, op, directory, record_path, hits, out, last>>

\* a file case that reads the bytes before it looks the path up
compare_file_eager(e) ==
    LET rel == strip_prefix(e, directory) IN
    /\ reads' = reads \cup {e}
    /\ IF ~ReadOk(fs, e) THEN Abort(e) /\ UNCHANGED <<hits, out>>
       ELSE /\ out' = IF rel \notin DOMAIN hashes THEN Append(out, Line("dir", rel))
                      ELSE IF hashes[rel] # hash_file(fs[e].data)
                      THEN Append(out, Line("dif", rel)) ELSE out
            /\ hits' = hits \cup {rel}
            /\ stack' = Consume(stack, e)
            /\ UNCHANGED <<pc, result, errPath>>

\* compare_hashes, lines 103-113: the entry is a file
compare_file(e) ==
    LET rel == strip_prefix(e, directory) IN
    IF rel \in DOMAIN hashes
    THEN /\ reads' = reads \cup {e}
         /\ IF ~ReadOk(fs, e) THEN Abort(e) /\ UNCHANGED <<hits, out>>
            ELSE /\ out' = IF hashes[rel] # hash_file(fs[e].data)
                           THEN Append(out, Line("dif", rel)) ELSE out
                 /\ hits' = hits \cup {rel}
                 /\ stack' = Consume(stack, e)
                 /\ UNCHANGED <<pc, result, errPath>>
    ELSE /\ out' = Append(out, Line("dir", rel))
         /\ hits' = hits \cup {rel}
         /\ stack' = Consume(stack, e)
         /\ UNCHANGED <<pc, result, errPath, reads>>

\* compare_hashes: one iteration of the loop over the entries
compare_hashes(e) ==
    /\ pc = "walk" /\ op = "compare"
    /\ stack # <<>>
    /\ e \in Top.todo
    /\ IF is_dir(fs, e)
       THEN LET en == Enter(Consume(stack, e), e) IN
            IF en.err THEN Abort(e) /\ UNCHANGED <<hits, out, reads>>
            ELSE /\ stack' = en.stack
                 /\ UNCHANGED <<pc, result, errPath, hits, out, reads>>
       ELSE compare_file(e)
    /\ UNCHANGED <<fs, store, changes, op, directory, record_path, hashes, last>>

\* the loop over a directory's entries is over: the call returns Ok(())
walk_return ==
    /\ pc = "walk"
    /\ stack # <<>>
    /\ Top.todo = {}
    /\ stack' = SubSeq(stack, 1, Len(stack) - 1)
    /\ UNCHANGED <<fs, store, changes, pc, op, directory, record_path, hashes,
                   hits, out, result, errPath, reads, last>>

\* record: lines 47-49, serialize and write
record_save ==
    /\ pc = "walk" /\ op = "record"
    /\ stack = <<>>
    /\ store' = [store EXCEPT ![with_extension(record_path, "bin")] =
                     [exists |-> TRUE, bytes |-> Encode(hashes)]]
    /\ pc' = "done"
    /\ result' = "ok"
    /\ UNCHANGED <<fs, changes, op, directory, record_path, hashes, hits,
                   stack, out, errPath, reads, last>>

\* compare: lines 53-55, up to the first read_dir
compare(d, rp) ==
    /\ pc = "idle"
    /\ op' = "compare"
    /\ directory' = d
    /\ record_path' = rp
    /\ hits' = {}
    /\ out' = <<>>
    /\ reads' = {}
    /\ last' = Before(d, rp)
    /\ LET rr == read_record(rp) IN
        /\ hashes' = rr.hashes
        /\ IF rr.status # "ok"
           THEN /\ pc' = "done"
                /\ result' = rr.status
                /\ errPath' = <<>>
                /\ stack' = <<>>
           ELSE LET en == Enter(<<>>, d) IN
                IF en.err THEN Abort(d)
                ELSE /\ pc' = "walk"
                     /\ stack' = en.stack
                     /\ result' = "none"
                     /\ errPath' = <<>>
    /\ UNCHANGED <<fs, store, changes>>

\* the record's keys not emitted as [rec] yet
RecEmitted == {out[i].path : i \in {j \in 1..Len(out) : out[j].tag = "rec"}}
\* a difference that forgets the hit set
RecPending_all == (DOMAIN hashes) \ RecEmitted
\* all.difference(&hits), less what the loop has been through
RecPending == ((DOMAIN hashes) \ hits) \ RecEmitted

\* a difference taken while the traversal is still under way
compare_diff_early ==
    /\ pc = "walk" /\ op = "compare"
    /\ pc' = "rec"
    /\ UNCHANGED <<fs, store, changes, op, directory, record_path, hashes,
                   hits, stack, out, result, errPath, reads, last>>

\* compare: lines 56-57, the traversal returned Ok(())
compare_diff ==
    /\ pc = "walk" /\ op = "compare"
    /\ stack = <<>>
    /\ pc' = "rec"
    /\ UNCHANGED <<fs, store, changes, op, directory, record_path, hashes,
                   hits, stack, out, result, errPath, reads, last>>

\* compare: lines 58-60, one iteration over the HashSet difference, whose
\* iteration order is arbitrary
compare_rec(p) ==
    /\ pc = "rec"
    /\ p \in RecPending
    /\ out' = Append(out, Line("rec", p))
    /\ UNCHANGED <<fs, store, changes, pc, op, directory, record_path, hashes,
                   hits, stack, result, errPath, reads, last>>

\* compare: line 61
compare_ok ==
    /\ pc = "rec"
    /\ RecPending = {}
    /\ pc' = "done"
    /\ result' = "ok"
    /\ UNCHANGED <<fs, store, changes, op, directory, record_path, hashes,
                   hits, stack, out, errPath, reads, last>>

\* list: the whole command
list(rp) ==
    /\ pc = "idle"
    /\ op' = "list"
    /\ directory' = <<>>
    /\ record_path' = rp
    /\ hits' = {}
    /\ stack' = <<>>
    /\ errPath' = <<>>
    /\ reads' = {}
    /\ last' = NoLast
    /\ pc' = "done"
    /\ LET rr == read_record(rp) IN
        /\ hashes' = rr.hashes
        /\ result' = rr.status
        /\ out' = IF rr.status = "ok"
                  THEN ListLines(rr.hashes, SortedKeys(DOMAIN rr.hashes))
                  ELSE <<>>
    /\ UNCHANGED <<fs, store, changes>>

\* the process is gone with all its state
Reset ==
    /\ pc' = "idle"
    /\ op' = "none"
    /\ directory' = <<>>
    /\ record_path' = [stem |-> "r", ext |-> "bin"]
    /\ hashes' = EmptyMap
    /\ hits' = {}
    /\ stack' = <<>>
    /\ out' = <<>>
    /\ result' = "none"
    /\ errPath' = <<>>
    /\ reads' = {}
    /\ UNCHANGED <<fs, store, changes>>

\* main returns: the process exits
exit ==
    /\ pc = "done"
    /\ Reset
    /\ last' = NoLast

\* the process exits, and what it printed is kept for the next run to be
\* set against
exit_remembered ==
    /\ pc = "done"
    /\ Reset
    /\ last' = Ended

Next ==
    \/ \E p \in Nodes, b \in Bytes : CreateFile(p, b)
    \/ \E p \in Nodes : MkDir(p)
    \/ \E p \in Nodes, b \in Bytes : WriteFile(p, b)
    \/ \E p \in Nodes : Remove(p)
    \/ \E p \in Nodes : Chmod(p)
    \/ \E rp \in RecPaths : Truncate(rp)
    \/ \E d \in DirArgs, rp \in RecPaths : record(d, rp)
    \/ \E e \in Nodes : record_hashes(e)
    \/ \E e \in Nodes : compare_hashes(e)
    \/ walk_return
    \/ record_save
    \/ \E d \in DirArgs, rp \in RecPaths : compare(d, rp)
    \/ compare_diff
    \/ \E p \in DOMAIN hashes : compare_rec(p)
    \/ compare_ok
    \/ \E rp \in RecPaths : list(rp)
    \/ exit

Spec == Init /\ [][Next]_vars

\* runs of commands one after the other, each set against the one before
NextRuns == Next \/ exit_remembered

SpecRuns == Init /\ [][NextRuns]_vars

\* ---- what the claims speak about ----
\* paths(D): the files below d, relative to d
LivePaths(d) ==
    {SubSeq(n, Len(d) + 1, Len(n)) :
        n \in {m \in Nodes : Len(m) > Len(d) /\ IsPrefix(d, m) /\ fs[m].kind = "file"}}

LiveBytes(d, p) == fs[d \o p].data

Keys == DOMAIN hashes

HasLine(tag, p) == \E i \in 1..Len(out) : out[i].tag = tag /\ out[i].path = p

RecLines(o) == SelectSeq(o, LAMBDA l : l.tag = "rec")

CompareOk == op = "compare" /\ pc = "done" /\ result = "ok"
RecordOk == op = "record" /\ pc = "done" /\ result = "ok"

NotADirectory(d) == d # <<>> /\ fs[d].kind # "dir"

InStack(d) == \E i \in 1..Len(stack) : stack[i].dir = d
FrameOf(d) == stack[CHOOSE i \in 1..Len(stack) : stack[i].dir = d]

\* the entry n below the root has been taken from its directory's listing
RECURSIVE Consumed(_)
Consumed(n) ==
    LET par == Parent(n) IN
    IF InStack(par) THEN n \notin FrameOf(par).todo
    ELSE IF par = directory THEN TRUE
    ELSE Consumed(par)

\* the files processed so far by the running traversal, relative to the root
Processed ==
    {SubSeq(n, Len(directory) + 1, Len(n)) :
        n \in {m \in Nodes : /\ Len(m) > Len(directory)
                             /\ IsPrefix(directory, m)
                             /\ fs[m].kind = "file"
                             /\ Consumed(m)}}

\* C1: after a compare that ended without failure, every path of
\* keys(R) \cup paths(D) has at most one line, [dir] iff only in D, [rec] iff
\* only in R, [dif] iff in both with unequal digests, none iff in both with
\* equal digests; no line is about any other path.
C1_Partition ==
    CompareOk =>
        LET P == LivePaths(directory) IN
        /\ \A i \in 1..Len(out) : out[i].path \in Keys \cup P
        /\ \A i, j \in 1..Len(out) : out[i].path = out[j].path => i = j
        /\ \A p \in Keys \cup P :
            /\ HasLine("dir", p) <=> (p \in P /\ p \notin Keys)
            /\ HasLine("rec", p) <=> (p \in Keys /\ p \notin P)
            /\ HasLine("dif", p) <=>
                   (p \in Keys /\ p \in P /\ hash_file(LiveBytes(directory, p)) # hashes[p])

C1_Witness ==
    /\ CompareOk
    /\ \E p \in Keys : HasLine("dif", p)
    /\ \E p \in Keys : HasLine("rec", p)

\* C2: a compare that directly follows a successful record of the same
\* directory under the same record_path succeeds and prints nothing.
C2_Idempotence ==
    (op = "compare" /\ pc = "done" /\ last.op = "record")
        => (result = "ok" /\ out = <<>>)

\* C3: after record has saved its snapshot for record_path, read_record of
\* that record_path returns the snapshot.
C3_RoundTrip ==
    RecordOk =>
        /\ read_record(record_path).status = "ok"
        /\ read_record(record_path).hashes = hashes

\* C4: the mapping record_hashes builds has exactly the files below the root
\* as keys, relative to the root, each with the digest of the file's bytes,
\* whatever the order of enumeration.
C4_Snapshot ==
    (op = "record" /\ ((pc = "walk" /\ stack = <<>>) \/ RecordOk)) =>
        /\ Keys = LivePaths(directory)
        /\ \A p \in Keys : hashes[p] = hash_file(LiveBytes(directory, p))

C4_Witness ==
    /\ RecordOk
    /\ directory # <<>>
    /\ Cardinality(Keys) >= 2

\* C5: a record file that exists but does not decode makes compare and list
\* end in a returned error, not in a panic, with nothing printed.
C5_DecodeError ==
    (op \in {"compare", "list"} /\ pc = "done"
        /\ store[record_path].exists /\ ~DecodeOk(store[record_path].bytes))
        => (result = "io_error" /\ out = <<>>)

\* C6 as stated: a compare that ends in an I/O failure has printed nothing.
C6_NoOutputOnFailure ==
    (op = "compare" /\ result = "io_error") => out = <<>>

\* C6 amended: a compare that meets an I/O failure stops and returns it; it
\* has printed no [rec] line, and each line it has printed is the [dir] or
\* [dif] line of a live file, at most one per path.
C6_AbortKeepsTraversalLines ==
    (op = "compare" /\ result = "io_error") =>
        LET P == LivePaths(directory) IN
        /\ pc = "done" /\ stack = <<>>
        /\ \A i \in 1..Len(out) :
            /\ out[i].tag \in {"dir", "dif"}
            /\ out[i].path \in P
            /\ out[i].tag = "dir" => out[i].path \notin Keys
            /\ out[i].tag = "dif" =>
                   /\ out[i].path \in Keys
                   /\ hash_file(LiveBytes(directory, out[i].path)) # hashes[out[i].path]
        /\ \A i, j \in 1..Len(out) : out[i].path = out[j].path => i = j

C6_Witness ==
    /\ op = "compare" /\ result = "io_error"
    /\ errPath \in Nodes
    /\ out # <<>>

\* C7: two successive runs of compare on the same record and directory, with
\* no change in between, print their [rec] lines in the same order.
C7_RecOrder ==
    (CompareOk /\ last.op = "compare") => RecLines(out) = RecLines(last.out)

\* C8: once compare is deriving or has printed a [rec] line, all files below
\* the root are classified and in the hit set, the traversal has returned,
\* and no [dir] or [dif] line follows a [rec] line.
C8_RecAfterTraversal ==
    (op = "compare" /\ (pc = "rec" \/ \E i \in 1..Len(out) : out[i].tag = "rec")) =>
        LET P == LivePaths(directory) IN
        /\ stack = <<>>
        /\ hits = P
        /\ \A p \in P \ Keys : HasLine("dir", p)
        /\ \A p \in P \cap Keys :
               HasLine("dif", p) <=> hash_file(LiveBytes(directory, p)) # hashes[p]
        /\ \A i, j \in 1..Len(out) : (i < j /\ out[i].tag = "rec") => out[j].tag = "rec"

C8_Witness ==
    /\ op = "compare" /\ pc = "rec"
    /\ \E i, j \in 1..Len(out) : out[i].tag = "rec" /\ out[j].tag \in {"dir", "dif"}
    /\ \E n \in Nodes : Len(n) = Len(directory) + 2 /\ n \in {directory \o h : h \in hits}

\* C9: on a root that does not exist or is not a directory the walk sees no
\* file and raises no error: compare of a loadable record succeeds with one
\* [rec] line per key and no other line; record succeeds and saves the empty
\* mapping.
C9_NoDirectoryRoot ==
    /\ (op = "compare" /\ pc = "done" /\ NotADirectory(directory)
            /\ read_record(record_path).status = "ok") =>
        /\ result = "ok"
        /\ Len(out) = Cardinality(Keys)
        /\ \A i \in 1..Len(out) : out[i].tag = "rec"
        /\ \A p \in Keys : HasLine("rec", p)
    /\ (op = "record" /\ pc # "walk" /\ NotADirectory(directory)) =>
        /\ result = "ok"
        /\ store[with_extension(record_path, "bin")] = [exists |-> TRUE, bytes |-> Encode(EmptyMap)]
        /\ read_record(with_extension(record_path, "bin")).hashes = EmptyMap

C9_Witness ==
    /\ CompareOk
    /\ NotADirectory(directory)
    /\ fs[directory].kind = "file"
    /\ Cardinality(Keys) >= 2

\* C10: compare reads a live file only when its relative path is a key of
\* the record; a file that is not a key is printed as [dir] and hit without
\* being read, so a failed read is always the read of a key, which is then
\* not in the hit set; and during the traversal the hit set is the set of the
\* files processed so far.
C10_ReadOnlyKeys ==
    op = "compare" =>
        /\ \A e \in reads : strip_prefix(e, directory) \in Keys
        /\ \A p \in hits \ Keys : HasLine("dir", p) /\ (directory \o p) \notin reads
        /\ (result = "io_error" /\ errPath \in Nodes /\ fs[errPath].kind = "file") =>
               /\ strip_prefix(errPath, directory) \in Keys
               /\ strip_prefix(errPath, directory) \notin hits
               /\ errPath \in reads
        /\ (pc \in {"walk", "rec"} \/ result = "ok") => hits = Processed

C10_Witness ==
    /\ op = "compare" /\ pc = "walk"
    /\ \E p \in hits \ Keys : ~fs[directory \o p].ok
    /\ \E p \in hits \cap Keys : TRUE
====
